---------------------------- MODULE Spec2Model ----------------------------
(***************************************************************************)
(* Model of the Linear adapter: the transport layer LinearClient.query     *)
(* (src/linear_client.py) and the six list/get handlers of src/server.py.  *)
(*                                                                         *)
(* Encoding of the JSON / Python values:                                   *)
(*   - a JSON object is a record; a key the object lacks is a key that is  *)
(*     not in its DOMAIN; the empty object {} is <<>>;                     *)
(*   - a field that holds an object or null is a sequence of length 0      *)
(*     (null) or 1 (the object);                                           *)
(*   - a scalar field that is null (Python None) is the token None;        *)
(*   - a message (a Python str built by formatting) is the sequence of its *)
(*     fragments, in order.                                                *)
(***************************************************************************)
EXTENDS Integers, Sequences, FiniteSets, TLC

VARIABLES
    op,        \* the handler of the last call ("none" before the first)
    args,      \* the arguments of the last call
    sent,      \* the requests the last call posted upstream, in order
    upstream,  \* what the transport met for the last call
    result,    \* the mapping the last call returned
    raised,    \* TRUE iff the last call let an exception reach its caller
    linear_client,  \* the module-level LinearClient every handler uses
    calls      \* the frames of the calls the host has in flight, by slot

vars == <<op, args, sent, upstream, result, raised, linear_client, calls>>
seqVars == <<op, args, sent, upstream, result, raised>>

---------------------------------------------------------------------------
(* Bounds of the model *)

MaxNodes == 2
MaxIssues == 2
MaxMilestones == 2

---------------------------------------------------------------------------
(* Python values *)

None == "None"
EmptyObj == <<>>
Null == <<>>

\* dict.get(key, default)
Get(obj, key, default) == IF key \in DOMAIN obj THEN obj[key] ELSE default

\* truth value of a field holding an object or null: None and {} are falsy
Truthy(ref) == Len(ref) > 0 /\ DOMAIN ref[1] # {}

\* truth value of a str-or-None scalar: None and "" are falsy
TruthyStr(s) == s # None /\ s # ""

\* ref.get(key) if ref else None, for a field holding an object or null
RefGet(obj, field, key) ==
    IF Truthy(Get(obj, field, Null))
    THEN Get(Get(obj, field, Null)[1], key, None)
    ELSE None

Min(a, b) == IF a <= b THEN a ELSE b

\* the set of the entries of the list s
Range(s) == {s[i] : i \in 1..Len(s)}

\* all sequences over S of length at most n
SeqsUpTo(S, n) == UNION {[1..k -> S] : k \in 0..n}


---------------------------------------------------------------------------
(* Transport layer: LinearClient.query *)

Hint400 == "\n\nCommon causes:\n1. Invalid API key - Check that LINEAR_API_KEY is set correctly\n2. API key should start with 'lin_api_'\n3. Get your API key from: https://linear.app/settings/api"

AuthFailedText == "Authentication failed. Your Linear API key is invalid or expired.\n"
AuthNewKeyText == "Get a new key from: https://linear.app/settings/api"

\* a raised Exception(msg) and a normal return
Raise(msg) == [exc |-> TRUE, msg |-> msg]
Return(value) == [exc |-> FALSE, value |-> value]

\* e.response.json() when the body parses, e.response.text otherwise
ErrorDetail(response) ==
    IF Len(response.json) > 0 THEN response.json[1] ELSE response.text

\* faulty variant: no branch for 401, the generic message is kept
HTTPStatusMessageGeneric(response) ==
    <<"Linear API error ", ToString(response.status_code), ": ",
      ErrorDetail(response)>>
    \o (IF response.status_code = 400 THEN <<Hint400>> ELSE <<>>)
\* faulty variant: the hint for 400 is appended whatever the status
HTTPStatusMessageHintAlways(response) ==
    IF response.status_code = 401
    THEN <<AuthFailedText, AuthNewKeyText>>
    ELSE <<"Linear API error ", ToString(response.status_code), ": ",
           ErrorDetail(response), Hint400>>
\* the message built for an HTTPStatusError
HTTPStatusMessage(response) ==
    IF response.status_code = 401
    THEN <<AuthFailedText, AuthNewKeyText>>
    ELSE <<"Linear API error ", ToString(response.status_code), ": ",
           ErrorDetail(response)>>
         \o (IF response.status_code = 400 THEN <<Hint400>> ELSE <<>>)

NetworkErrorMessage(cause) ==
    <<"Network error connecting to Linear API: ", cause>>

\* str(err) of an error object without a message
PyStr(err) == <<"{'extensions': '", Get(err, "extensions", None), "'}">>

\* f"- {err.get('message', str(err))}"
ErrorLine(err) ==
    <<"- ">> \o (IF "message" \in DOMAIN err THEN <<err.message>> ELSE PyStr(err))

\* "\n".join(lines)
RECURSIVE JoinLines(_)
JoinLines(lines) ==
    IF Len(lines) = 0 THEN <<>>
    ELSE IF Len(lines) = 1 THEN lines[1]
    ELSE lines[1] \o <<"\n">> \o JoinLines(Tail(lines))

\* faulty variant: only the first error is reported
GraphQLErrorMessageFirst(errors) ==
    <<"GraphQL errors:\n">> \o (IF Len(errors) = 0 THEN <<>> ELSE ErrorLine(errors[1]))
\* f"GraphQL errors:\n{error_details}"
GraphQLErrorMessage(errors) ==
    <<"GraphQL errors:\n">> \o JoinLines([i \in 1..Len(errors) |-> ErrorLine(errors[i])])

\* faulty variant: data["data"], a KeyError when the envelope has no data
ParseEnvelopeStrict(data) ==
    IF "errors" \in DOMAIN data
    THEN Raise(GraphQLErrorMessage(data.errors))
    ELSE IF "data" \in DOMAIN data THEN Return(data.data)
    ELSE Raise(<<"'", "data", "'">>)
\* the part of query after the response arrived with a 2xx status
ParseEnvelope(data) ==
    IF "errors" \in DOMAIN data
    THEN Raise(GraphQLErrorMessage(data.errors))
    ELSE Return(Get(data, "data", EmptyObj))

\* LinearClient.query, given what the POST met
query(outcome) ==
    CASE outcome.kind = "status"  -> Raise(HTTPStatusMessage(outcome.response))
      [] outcome.kind = "network" -> Raise(NetworkErrorMessage(outcome.cause))
      [] outcome.kind = "ok"      -> ParseEnvelope(outcome.envelope)

\* the body of the POST: json={"query": query, "variables": variables or {}}
Post(queryName, variables) == [query |-> queryName, variables |-> variables]

\* faulty variant: a request that met a network failure is posted again
PostedWithRetry(request, outcome) ==
    IF outcome.kind = "network" THEN <<request, request>> ELSE <<request>>
\* the requests one call of query posts, given what the POST met: one
\* client.post, in no loop
Posted(request, outcome) == <<request>>

---------------------------------------------------------------------------
(* The client the server builds at startup *)

\* the client LinearClient.__init__ builds with the key "lin_api_k"
LinearClient ==
    [api_key |-> "lin_api_k", base_url |-> "https://api.linear.app/graphql",
     headers |-> [Authorization |-> "lin_api_k", ContentType |-> "application/json"]]

\* os.getenv("LINEAR_API_KEY") at startup: unset, empty, or a key
Environments == {None, "", "lin_api_k"}

KeyRequiredText == "LINEAR_API_KEY is required. Set it as environment variable or pass it to the constructor."

\* faulty variant: the key is not checked, the client is built with what there is
LinearClientInitUnchecked(api_key, environ) ==
    LET key == IF TruthyStr(api_key) THEN api_key ELSE environ
    IN Return([LinearClient EXCEPT !.api_key = key, !.headers.Authorization = key])
\* LinearClient.__init__(api_key) with LINEAR_API_KEY = environ
LinearClientInit(api_key, environ) ==
    LET key == IF TruthyStr(api_key) THEN api_key ELSE environ
    IN IF ~TruthyStr(key) THEN Raise(<<KeyRequiredText>>)
       ELSE Return([LinearClient EXCEPT !.api_key = key, !.headers.Authorization = key])

\* linear_client = LinearClient() at import of the server module; when it
\* raises the module does not load and no tool is ever registered
Startup(environ) ==
    LET c == LinearClientInit(None, environ)
    IN IF c.exc THEN [failed |-> c.msg] ELSE c.value

\* the server module was imported: the client exists
Started == "api_key" \in DOMAIN linear_client


---------------------------------------------------------------------------
(* What the transport can meet *)

StatusCodes == {400, 401, 403, 404, 500, 503}

ErrorResponses ==
    {[status_code |-> c, text |-> "Bad credentials", json |-> <<>>] : c \in StatusCodes}
    \cup {[status_code |-> c, text |-> "{\"error\":\"denied\"}",
           json |-> <<"{'error': 'denied'}">>] : c \in {400, 403}}

GraphQLErrors ==
    {[message |-> "Entity not found"], [message |-> "Rate limited"],
     [extensions |-> "RATELIMITED"]}

ErrorLists == {<<>>} \cup {<<e>> : e \in GraphQLErrors}
              \cup {<<[message |-> "Entity not found"], [message |-> "Rate limited"]>>}

\* the failures of the transport: non-2xx status, network failure, error envelope
Failures ==
    {[kind |-> "status", response |-> r] : r \in ErrorResponses}
    \cup {[kind |-> "network", cause |-> c] : c \in {"timed out", "connection refused"}}
    \cup {[kind |-> "ok", envelope |-> [errors |-> es]] : es \in ErrorLists}
    \cup {[kind |-> "ok",
           envelope |-> [errors |-> <<[message |-> "Rate limited"],
                                      [message |-> "Entity not found"]>>,
                         data |-> [viewer |-> <<[id |-> "u1"]>>]]]}

\* a 2xx response without an errors key
Ok(data) == [kind |-> "ok", envelope |-> [data |-> data]]
OkNoData == [kind |-> "ok", envelope |-> EmptyObj]

FullPageInfo ==
    [hasNextPage |-> TRUE, hasPreviousPage |-> FALSE, endCursor |-> "c2",
     startCursor |-> "c1"]

\* the connection objects upstream can return for a set of nodes
Connections(NodeSet) ==
    {[nodes |-> ns, pageInfo |-> FullPageInfo] : ns \in SeqsUpTo(NodeSet, MaxNodes)}
    \cup {[nodes |-> ns] : ns \in SeqsUpTo(NodeSet, MaxNodes)}
    \cup {[nodes |-> <<>>, pageInfo |-> [hasNextPage |-> TRUE]],
          [pageInfo |-> FullPageInfo], EmptyObj}

---------------------------------------------------------------------------
(* The try/except of every handler *)

\* faulty variant: no except clause, the exception reaches the caller
TryExceptMissing(completion) ==
    IF completion.exc
    THEN [returned |-> EmptyObj, escaped |-> TRUE]
    ELSE [returned |-> completion.value, escaped |-> FALSE]
\* faulty variant: the except clause returns the error inside a list-shaped mapping
TryExceptPadded(completion) ==
    IF completion.exc
    THEN [returned |-> [error |-> completion.msg, total_count |-> 0], escaped |-> FALSE]
    ELSE [returned |-> completion.value, escaped |-> FALSE]
\* except Exception as e: return {"error": str(e)}
TryExcept(completion) ==
    IF completion.exc
    THEN [returned |-> [error |-> completion.msg], escaped |-> FALSE]
    ELSE [returned |-> completion.value, escaped |-> FALSE]

\* str(KeyError(key))
KeyErrorMessage(key) == <<"'", key, "'">>

\* the first key of required, in order, that obj lacks (<<>> if none)
MissingKey(obj, required) ==
    LET miss == {i \in 1..Len(required) : required[i] \notin DOMAIN obj}
    IN IF miss = {} THEN <<>>
       ELSE <<required[CHOOSE i \in miss : \A j \in miss : i <= j]>>

\* the KeyError of the first node, in order, that lacks a required key
FirstKeyError(nodes, required) ==
    LET bad == {i \in 1..Len(nodes) : MissingKey(nodes[i], required) # <<>>}
    IN IF bad = {} THEN <<>>
       ELSE MissingKey(nodes[CHOOSE i \in bad : \A j \in bad : i <= j], required)

\* faulty variant: the two cursors are swapped
PaginationSwapped(page_info) ==
    [has_next_page |-> Get(page_info, "hasNextPage", FALSE),
     has_previous_page |-> Get(page_info, "hasPreviousPage", FALSE),
     end_cursor |-> Get(page_info, "startCursor", None),
     start_cursor |-> Get(page_info, "endCursor", None)]
\* "pagination": {...} of the list handlers
Pagination(page_info) ==
    [has_next_page |-> Get(page_info, "hasNextPage", FALSE),
     has_previous_page |-> Get(page_info, "hasPreviousPage", FALSE),
     end_cursor |-> Get(page_info, "endCursor", None),
     start_cursor |-> Get(page_info, "startCursor", None)]

\* the page-size clamp of the list handlers
MaxPageSize == 250
\* faulty variant: the limit is passed on as given
ClampLimitDropped(limit) == limit
ClampLimit(limit) == Min(limit, MaxPageSize)

\* faulty variant: counts the distinct items of the page
TotalCountDistinct(formatted) == Cardinality(Range(formatted))
\* "total_count": len(formatted)
TotalCount(formatted) == Len(formatted)

---------------------------------------------------------------------------
(* The arguments of the list handlers *)

Limits == {-1, 50, 250, 251, 1000}
Searches == {None, "", "API"}
\* <<cursor_after, cursor_before>>
Cursors == {<<None, None>>, <<"c2", None>>, <<None, "c1">>}
Ids == {"id-1", "missing-id"}

---------------------------------------------------------------------------
(* list_initiatives *)

\* faulty variant: the flag is sent upstream as a variable
get_initiativesArchivedAware(limit, filter_query, include_archived, after, before) ==
    Post("GetInitiatives", [first |-> limit, after |-> after, before |-> before,
                            includeArchived |-> include_archived])
\* LinearClient.get_initiatives: the request it posts
get_initiatives(limit, filter_query, include_archived, after, before) ==
    Post("GetInitiatives", [first |-> limit, after |-> after, before |-> before])

FormatInitiative(initiative) ==
    [id |-> initiative.id,
     name |-> initiative.name,
     description |-> Get(initiative, "description", None),
     status |-> Get(initiative, "status", None),
     owner |-> RefGet(initiative, "owner", "name"),
     project_count |-> None,
     target_date |-> Get(initiative, "targetDate", None),
     started_at |-> Get(initiative, "startedAt", None),
     completed_at |-> Get(initiative, "completedAt", None),
     archived_at |-> Get(initiative, "archivedAt", None),
     created_at |-> Get(initiative, "createdAt", None),
     updated_at |-> Get(initiative, "updatedAt", None),
     color |-> Get(initiative, "color", None),
     icon |-> Get(initiative, "icon", None)]

\* the try block of _list_initiatives once the client call has completed
ListInitiativesBody(completion) ==
    IF completion.exc THEN completion
    ELSE LET initiatives == Get(completion.value, "initiatives", EmptyObj)
             nodes == Get(initiatives, "nodes", <<>>)
             page_info == Get(initiatives, "pageInfo", EmptyObj)
             err == FirstKeyError(nodes, <<"id", "name">>)
             formatted_initiatives ==
                 [i \in 1..Len(nodes) |-> FormatInitiative(nodes[i])]
         IN IF err # <<>> THEN Raise(KeyErrorMessage(err[1]))
            ELSE Return([initiatives |-> formatted_initiatives,
                         total_count |-> TotalCount(formatted_initiatives),
                         pagination |-> Pagination(page_info)])

_list_initiatives(outcome) == TryExcept(ListInitiativesBody(query(outcome)))

InitiativeNodes ==
    {[id |-> "init-1", name |-> "Alpha", description |-> "Platform",
      status |-> "Active", targetDate |-> "2025-06-30",
      owner |-> <<[id |-> "u1", name |-> "Ann", email |-> "ann@example.com"]>>],
     [id |-> "init-2", name |-> "Beta", owner |-> Null],
     [id |-> "init-3"]}

InitiativesResponses ==
    {Ok([initiatives |-> c]) : c \in Connections(InitiativeNodes)}
    \cup {Ok(EmptyObj), OkNoData}

ListInitiatives ==
    /\ Started
    /\ op = "none"
    /\ UNCHANGED <<linear_client, calls>>
    /\ \E limit \in Limits, search \in Searches, include_archived \in BOOLEAN,
          cursors \in Cursors :
       \E outcome \in Failures \cup InitiativesResponses :
           LET r == _list_initiatives(outcome) IN
           /\ op' = "list_initiatives"
           /\ args' = [limit |-> limit, search |-> search,
                       include_archived |-> include_archived,
                       cursor_after |-> cursors[1], cursor_before |-> cursors[2]]
           /\ sent' = Posted(get_initiatives(ClampLimit(limit), search, include_archived,
                                              cursors[1], cursors[2]), outcome)
           /\ upstream' = outcome
           /\ result' = r.returned
           /\ raised' = r.escaped

---------------------------------------------------------------------------
(* get_initiative *)

get_initiative(id) == Post("GetInitiative", [id |-> id])

\* faulty variant: the message does not carry the id
NotFoundMessageNoId(entity, id) == <<entity, " not found">>
\* f"{Entity} with ID '{id}' not found"
NotFoundMessage(entity, id) == <<entity, " with ID '", id, "' not found">>

FormatChildProject(project) ==
    [id |-> project.id,
     name |-> project.name,
     description |-> Get(project, "description", None),
     state |-> Get(project, "state", None),
     progress |-> Get(project, "progress", None),
     target_date |-> Get(project, "targetDate", None)]

FormatChildDocument(doc) ==
    [id |-> doc.id,
     title |-> doc.title,
     created_at |-> Get(doc, "createdAt", None),
     updated_at |-> Get(doc, "updatedAt", None)]

\* {"name": ..., "email": ...} if ref else None
PersonRef(obj, field) ==
    IF Truthy(Get(obj, field, Null))
    THEN <<[name |-> Get(Get(obj, field, Null)[1], "name", None),
            email |-> Get(Get(obj, field, Null)[1], "email", None)]>>
    ELSE Null

\* the try block of _get_initiative once the client call has completed
GetInitiativeBody(id, completion) ==
    IF completion.exc THEN completion
    ELSE LET ref == Get(completion.value, "initiative", Null) IN
         IF ~Truthy(ref) THEN Return([error |-> NotFoundMessage("Initiative", id)])
         ELSE LET initiative == ref[1]
                  pnodes == Get(Get(initiative, "projects", EmptyObj), "nodes", <<>>)
                  dnodes == Get(Get(initiative, "documents", EmptyObj), "nodes", <<>>)
                  projects == [i \in 1..Len(pnodes) |-> FormatChildProject(pnodes[i])]
                  documents == [i \in 1..Len(dnodes) |-> FormatChildDocument(dnodes[i])]
                  perr == FirstKeyError(pnodes, <<"id", "name">>)
                  derr == FirstKeyError(dnodes, <<"id", "title">>)
                  ierr == MissingKey(initiative, <<"id", "name">>)
              IN IF perr # <<>> THEN Raise(KeyErrorMessage(perr[1]))
                 ELSE IF derr # <<>> THEN Raise(KeyErrorMessage(derr[1]))
                 ELSE IF ierr # <<>> THEN Raise(KeyErrorMessage(ierr[1]))
                 ELSE Return(
                     [id |-> initiative.id,
                      name |-> initiative.name,
                      description |-> Get(initiative, "description", None),
                      content |-> Get(initiative, "content", None),
                      status |-> Get(initiative, "status", None),
                      owner |-> PersonRef(initiative, "owner"),
                      project_count |-> Len(projects),
                      target_date |-> Get(initiative, "targetDate", None),
                      started_at |-> Get(initiative, "startedAt", None),
                      completed_at |-> Get(initiative, "completedAt", None),
                      archived_at |-> Get(initiative, "archivedAt", None),
                      created_at |-> Get(initiative, "createdAt", None),
                      updated_at |-> Get(initiative, "updatedAt", None),
                      color |-> Get(initiative, "color", None),
                      icon |-> Get(initiative, "icon", None),
                      projects |-> projects,
                      documents |-> documents])

_get_initiative(id, outcome) == TryExcept(GetInitiativeBody(id, query(outcome)))

ChildProjectNodes ==
    {[id |-> "proj-1", name |-> "Search", state |-> "started", progress |-> 40],
     [id |-> "proj-2", name |-> "Billing", state |-> "planned", progress |-> 0],
     [id |-> "proj-3", state |-> "planned", progress |-> 0]}

ChildDocumentLists ==
    {<<>>, <<[id |-> "doc-1", title |-> "Plan", createdAt |-> "2025-01-02"]>>,
     <<[id |-> "doc-2"]>>}

InitiativeEntities ==
    {[id |-> "init-1", name |-> "Alpha", status |-> "Active",
      owner |-> <<[id |-> "u1", name |-> "Ann", email |-> "ann@example.com"]>>,
      projects |-> [nodes |-> ps], documents |-> [nodes |-> ds]] :
        ps \in SeqsUpTo(ChildProjectNodes, MaxNodes), ds \in ChildDocumentLists}
    \cup {[id |-> "init-2", name |-> "Beta", owner |-> Null],
          [name |-> "Gamma"]}

\* the responses to a get-by-id query for the entity field named field
EntityResponses(field, Entities) ==
    {Ok([k \in {field} |-> <<e>>]) : e \in Entities}
    \cup {Ok([k \in {field} |-> Null]), Ok([k \in {field} |-> <<EmptyObj>>]),
          Ok(EmptyObj), OkNoData}

GetInitiative ==
    /\ Started
    /\ op = "none"
    /\ UNCHANGED <<linear_client, calls>>
    /\ \E id \in Ids :
       \E outcome \in Failures \cup EntityResponses("initiative", InitiativeEntities) :
           LET r == _get_initiative(id, outcome) IN
           /\ op' = "get_initiative"
           /\ args' = [id |-> id]
           /\ sent' = Posted(get_initiative(id), outcome)
           /\ upstream' = outcome
           /\ result' = r.returned
           /\ raised' = r.escaped

---------------------------------------------------------------------------
(* list_projects *)

\* faulty variant: elif, the initiative filter is dropped when a team is given
get_projectsElif(limit, filter_query, include_archived, team_id, initiative_id, after, before) ==
    LET variables == [first |-> limit, after |-> after, before |-> before]
        keys == (IF TruthyStr(filter_query) THEN {"name"} ELSE {})
                \cup (IF TruthyStr(team_id) THEN {"teams"}
                      ELSE IF TruthyStr(initiative_id) THEN {"initiatives"} ELSE {})
        filter_obj ==
            [k \in keys |->
                CASE k = "name" -> [contains |-> filter_query]
                  [] k = "teams" -> [some |-> [id |-> [eq |-> team_id]]]
                  [] k = "initiatives" -> [some |-> [id |-> [eq |-> initiative_id]]]]
    IN Post("GetProjects",
            IF keys # {} THEN variables @@ [filter |-> filter_obj] ELSE variables)
\* LinearClient.get_projects: the request it posts
get_projects(limit, filter_query, include_archived, team_id, initiative_id, after, before) ==
    LET variables == [first |-> limit, after |-> after, before |-> before]
        keys == (IF TruthyStr(filter_query) THEN {"name"} ELSE {})
                \cup (IF TruthyStr(team_id) THEN {"teams"} ELSE {})
                \cup (IF TruthyStr(initiative_id) THEN {"initiatives"} ELSE {})
        filter_obj ==
            [k \in keys |->
                CASE k = "name" -> [contains |-> filter_query]
                  [] k = "teams" -> [some |-> [id |-> [eq |-> team_id]]]
                  [] k = "initiatives" -> [some |-> [id |-> [eq |-> initiative_id]]]]
    IN Post("GetProjects",
            IF keys # {} THEN variables @@ [filter |-> filter_obj] ELSE variables)

\* [x["name"] for x in obj.get(field, {}).get("nodes", [])]
ChildNodes(obj, field) == Get(Get(obj, field, EmptyObj), "nodes", <<>>)
\* faulty variant: the names come out in reverse order
NamesReversed(nodes) == [i \in 1..Len(nodes) |-> nodes[Len(nodes) + 1 - i].name]
\* [node["name"] for node in nodes]
Names(nodes) == [i \in 1..Len(nodes) |-> nodes[i].name]

FormatProject(project) ==
    [id |-> project.id,
     name |-> project.name,
     description |-> Get(project, "description", None),
     state |-> Get(project, "state", None),
     progress |-> Get(project, "progress", None),
     lead |-> RefGet(project, "lead", "name"),
     teams |-> Names(ChildNodes(project, "teams")),
     initiatives |-> Names(ChildNodes(project, "initiatives")),
     target_date |-> Get(project, "targetDate", None),
     completed_at |-> Get(project, "completedAt", None),
     archived_at |-> Get(project, "archivedAt", None),
     color |-> Get(project, "color", None),
     icon |-> Get(project, "icon", None)]

\* the KeyError raised while formatting one project node (<<>> if none)
ProjectNodeError(project) ==
    LET own == MissingKey(project, <<"id", "name">>)
        terr == FirstKeyError(ChildNodes(project, "teams"), <<"name">>)
        ierr == FirstKeyError(ChildNodes(project, "initiatives"), <<"name">>)
    IN IF own # <<>> THEN own ELSE IF terr # <<>> THEN terr ELSE ierr

\* the try block of _list_projects once the client call has completed
ListProjectsBody(completion) ==
    IF completion.exc THEN completion
    ELSE LET projects == Get(completion.value, "projects", EmptyObj)
             nodes == Get(projects, "nodes", <<>>)
             page_info == Get(projects, "pageInfo", EmptyObj)
             bad == {i \in 1..Len(nodes) : ProjectNodeError(nodes[i]) # <<>>}
             formatted_projects == [i \in 1..Len(nodes) |-> FormatProject(nodes[i])]
         IN IF bad # {}
            THEN Raise(KeyErrorMessage(
                     ProjectNodeError(nodes[CHOOSE i \in bad : \A j \in bad : i <= j])[1]))
            ELSE Return([projects |-> formatted_projects,
                         total_count |-> TotalCount(formatted_projects),
                         pagination |-> Pagination(page_info)])

_list_projects(outcome) == TryExcept(ListProjectsBody(query(outcome)))

ProjectNodes ==
    {[id |-> "proj-1", name |-> "Search API", state |-> "started", progress |-> 40,
      lead |-> <<[id |-> "u1", name |-> "Ann", email |-> "ann@example.com"]>>,
      teams |-> [nodes |-> <<[id |-> "team-1", name |-> "Core", key |-> "COR"],
                             [id |-> "team-2", name |-> "Web", key |-> "WEB"]>>],
      initiatives |-> [nodes |-> <<[id |-> "init-1", name |-> "Alpha"]>>]],
     [id |-> "proj-2", name |-> "Billing", state |-> "planned", progress |-> 0,
      lead |-> Null],
     [name |-> "Orphan", state |-> "planned", progress |-> 0]}

ProjectsResponses ==
    {Ok([projects |-> c]) : c \in Connections(ProjectNodes)}
    \cup {Ok(EmptyObj), OkNoData}

ListProjects ==
    /\ Started
    /\ op = "none"
    /\ UNCHANGED <<linear_client, calls>>
    /\ \E limit \in Limits, search \in Searches, include_archived \in BOOLEAN,
          team_id \in {None, "team-1"}, initiative_id \in {None, "init-1"},
          cursors \in Cursors :
       \E outcome \in Failures \cup ProjectsResponses :
           LET r == _list_projects(outcome) IN
           /\ op' = "list_projects"
           /\ args' = [limit |-> limit, search |-> search,
                       include_archived |-> include_archived,
                       team_id |-> team_id, initiative_id |-> initiative_id,
                       cursor_after |-> cursors[1], cursor_before |-> cursors[2]]
           /\ sent' = Posted(get_projects(ClampLimit(limit), search, include_archived,
                                           team_id, initiative_id, cursors[1],
                                           cursors[2]), outcome)
           /\ upstream' = outcome
           /\ result' = r.returned
           /\ raised' = r.escaped

---------------------------------------------------------------------------
(* list_documents *)

\* faulty variant: the filter object is sent even when it is empty
get_documentsAlwaysFilter(limit, filter_query, include_archived, project_id, initiative_id, after, before) ==
    LET variables == [first |-> limit, after |-> after, before |-> before]
        keys == (IF TruthyStr(filter_query) THEN {"title"} ELSE {})
                \cup (IF TruthyStr(project_id) THEN {"project"} ELSE {})
                \cup (IF TruthyStr(initiative_id) THEN {"initiative"} ELSE {})
        filter_obj ==
            [k \in keys |->
                CASE k = "title" -> [contains |-> filter_query]
                  [] k = "project" -> [id |-> [eq |-> project_id]]
                  [] k = "initiative" -> [id |-> [eq |-> initiative_id]]]
    IN Post("GetDocuments", variables @@ [filter |-> filter_obj])
\* LinearClient.get_documents: the request it posts
get_documents(limit, filter_query, include_archived, project_id, initiative_id, after, before) ==
    LET variables == [first |-> limit, after |-> after, before |-> before]
        keys == (IF TruthyStr(filter_query) THEN {"title"} ELSE {})
                \cup (IF TruthyStr(project_id) THEN {"project"} ELSE {})
                \cup (IF TruthyStr(initiative_id) THEN {"initiative"} ELSE {})
        filter_obj ==
            [k \in keys |->
                CASE k = "title" -> [contains |-> filter_query]
                  [] k = "project" -> [id |-> [eq |-> project_id]]
                  [] k = "initiative" -> [id |-> [eq |-> initiative_id]]]
    IN Post("GetDocuments",
            IF keys # {} THEN variables @@ [filter |-> filter_obj] ELSE variables)

FormatDocument(doc) ==
    [id |-> doc.id,
     title |-> doc.title,
     creator |-> RefGet(doc, "creator", "name"),
     project |-> RefGet(doc, "project", "name"),
     initiative |-> RefGet(doc, "initiative", "name"),
     archived_at |-> Get(doc, "archivedAt", None),
     created_at |-> Get(doc, "createdAt", None),
     updated_at |-> Get(doc, "updatedAt", None),
     color |-> Get(doc, "color", None),
     icon |-> Get(doc, "icon", None)]

\* faulty variant: a node without id or title is skipped, the rest is returned
ListDocumentsBodySkipping(completion) ==
    IF completion.exc THEN completion
    ELSE LET documents == Get(completion.value, "documents", EmptyObj)
             nodes == Get(documents, "nodes", <<>>)
             page_info == Get(documents, "pageInfo", EmptyObj)
             good == SelectSeq(nodes, LAMBDA doc : MissingKey(doc, <<"id", "title">>) = <<>>)
             formatted_documents == [i \in 1..Len(good) |-> FormatDocument(good[i])]
         IN Return([documents |-> formatted_documents,
                    total_count |-> TotalCount(formatted_documents),
                    pagination |-> Pagination(page_info)])
\* the try block of _list_documents once the client call has completed
ListDocumentsBody(completion) ==
    IF completion.exc THEN completion
    ELSE LET documents == Get(completion.value, "documents", EmptyObj)
             nodes == Get(documents, "nodes", <<>>)
             page_info == Get(documents, "pageInfo", EmptyObj)
             err == FirstKeyError(nodes, <<"id", "title">>)
             formatted_documents == [i \in 1..Len(nodes) |-> FormatDocument(nodes[i])]
         IN IF err # <<>> THEN Raise(KeyErrorMessage(err[1]))
            ELSE Return([documents |-> formatted_documents,
                         total_count |-> TotalCount(formatted_documents),
                         pagination |-> Pagination(page_info)])

_list_documents(outcome) == TryExcept(ListDocumentsBody(query(outcome)))

DocumentNodes ==
    {[id |-> "doc-1", title |-> "Plan", createdAt |-> "2025-01-02",
      creator |-> <<[id |-> "u1", name |-> "Ann", email |-> "ann@example.com"]>>,
      project |-> <<[id |-> "proj-1", name |-> "Search API"]>>,
      initiative |-> Null],
     [id |-> "doc-2", title |-> "Notes", creator |-> Null,
      initiative |-> <<[id |-> "init-1", name |-> "Alpha"]>>],
     [id |-> "doc-3"]}

DocumentsResponses ==
    {Ok([documents |-> c]) : c \in Connections(DocumentNodes)}
    \cup {Ok(EmptyObj), OkNoData}

ListDocuments ==
    /\ Started
    /\ op = "none"
    /\ UNCHANGED <<linear_client, calls>>
    /\ \E limit \in Limits, search \in Searches, include_archived \in BOOLEAN,
          project_id \in {None, "proj-1"}, initiative_id \in {None, "init-1"},
          cursors \in Cursors :
       \E outcome \in Failures \cup DocumentsResponses :
           LET r == _list_documents(outcome) IN
           /\ op' = "list_documents"
           /\ args' = [limit |-> limit, search |-> search,
                       include_archived |-> include_archived,
                       project_id |-> project_id, initiative_id |-> initiative_id,
                       cursor_after |-> cursors[1], cursor_before |-> cursors[2]]
           /\ sent' = Posted(get_documents(ClampLimit(limit), search, include_archived,
                                            project_id, initiative_id, cursors[1],
                                            cursors[2]), outcome)
           /\ upstream' = outcome
           /\ result' = r.returned
           /\ raised' = r.escaped

---------------------------------------------------------------------------
(* get_document *)

get_document(id) == Post("GetDocument", [id |-> id])

\* {"id": ..., "name": ...} if ref else None
\* faulty variant: the name of the reference is left out
EntityRefIdOnly(obj, field) ==
    IF Truthy(Get(obj, field, Null))
    THEN <<[id |-> Get(Get(obj, field, Null)[1], "id", None)]>>
    ELSE Null
\* {"id": ..., "name": ...} if ref else None
EntityRef(obj, field) ==
    IF Truthy(Get(obj, field, Null))
    THEN <<[id |-> Get(Get(obj, field, Null)[1], "id", None),
            name |-> Get(Get(obj, field, Null)[1], "name", None)]>>
    ELSE Null

\* the try block of _get_document once the client call has completed
GetDocumentBody(id, completion) ==
    IF completion.exc THEN completion
    ELSE LET ref == Get(completion.value, "document", Null) IN
         IF ~Truthy(ref) THEN Return([error |-> NotFoundMessage("Document", id)])
         ELSE LET doc == ref[1]
                  err == MissingKey(doc, <<"id", "title">>)
              IN IF err # <<>> THEN Raise(KeyErrorMessage(err[1]))
                 ELSE Return(
                     [id |-> doc.id,
                      title |-> doc.title,
                      content |-> Get(doc, "content", None),
                      creator |-> PersonRef(doc, "creator"),
                      project |-> EntityRef(doc, "project"),
                      initiative |-> EntityRef(doc, "initiative"),
                      archived_at |-> Get(doc, "archivedAt", None),
                      created_at |-> Get(doc, "createdAt", None),
                      updated_at |-> Get(doc, "updatedAt", None),
                      color |-> Get(doc, "color", None),
                      icon |-> Get(doc, "icon", None)])

_get_document(id, outcome) == TryExcept(GetDocumentBody(id, query(outcome)))

DocumentEntities ==
    {[id |-> "doc-1", title |-> "Plan", content |-> "# Plan",
      creator |-> c, project |-> p, initiative |-> i] :
        c \in {Null, <<[id |-> "u1", name |-> "Ann", email |-> "ann@example.com"]>>,
               <<[id |-> "u2", name |-> "Bob"]>>},
        p \in {Null, <<[id |-> "proj-1", name |-> "Search API"]>>, <<[id |-> "proj-2"]>>},
        i \in {Null, <<[id |-> "init-1", name |-> "Alpha"]>>}}
    \cup {[id |-> "doc-2", title |-> "Notes"], [id |-> "doc-3"]}

GetDocument ==
    /\ Started
    /\ op = "none"
    /\ UNCHANGED <<linear_client, calls>>
    /\ \E id \in Ids :
       \E outcome \in Failures \cup EntityResponses("document", DocumentEntities) :
           LET r == _get_document(id, outcome) IN
           /\ op' = "get_document"
           /\ args' = [id |-> id]
           /\ sent' = Posted(get_document(id), outcome)
           /\ upstream' = outcome
           /\ result' = r.returned
           /\ raised' = r.escaped

---------------------------------------------------------------------------
(* get_project *)

\* the fields the fixed query of LinearClient.get_project selects
GetProjectFields ==
    {"id", "name", "description", "content", "state", "progress", "startedAt",
     "startDate", "targetDate", "completedAt", "canceledAt", "archivedAt",
     "createdAt", "updatedAt", "icon", "color", "slugId", "lead", "teams", "issues",
     "documents", "initiatives"}

\* the fields it selects of each node of issues
GetProjectIssueFields == {"id", "title", "identifier", "state", "priority"}

get_project(id) == Post("GetProject", [id |-> id])

\* milestone.get("progress", 0) / 100.0, as the exact fraction num/den
ProgressScale == 100
\* faulty variant: the progress is passed on unscaled
ScaleProgressDropped(progress) == [num |-> progress, den |-> 1]
ScaleProgress(progress) == [num |-> progress, den |-> ProgressScale]

\* issue.get("projectMilestone", {}).get("id") if issue.get("projectMilestone") else None
MilestoneIdOf(issue) == RefGet(issue, "projectMilestone", "id")

FormatIssue(issue) ==
    [id |-> issue.id,
     identifier |-> issue.identifier,
     title |-> issue.title,
     state |-> RefGet(issue, "state", "name"),
     state_type |-> RefGet(issue, "state", "type"),
     priority |-> Get(issue, "priority", None),
     milestone_id |-> MilestoneIdOf(issue)]

FormatMilestoneIssue(issue) ==
    [id |-> issue.id,
     identifier |-> Get(issue, "identifier", None),
     title |-> issue.title]

\* faulty variant: the issues of the milestone are not counted
FormatMilestoneUncounted(milestone) ==
    LET nodes == ChildNodes(milestone, "issues")
        milestone_issues == [i \in 1..Len(nodes) |-> FormatMilestoneIssue(nodes[i])]
    IN [id |-> milestone.id,
        name |-> milestone.name,
        description |-> Get(milestone, "description", None),
        target_date |-> Get(milestone, "targetDate", None),
        status |-> Get(milestone, "status", None),
        progress |-> ScaleProgress(Get(milestone, "progress", 0)),
        sort_order |-> Get(milestone, "sortOrder", None),
        created_at |-> Get(milestone, "createdAt", None),
        updated_at |-> Get(milestone, "updatedAt", None),
        archived_at |-> Get(milestone, "archivedAt", None),
        issues |-> milestone_issues,
        issue_count |-> 0]
\* one entry of milestones
FormatMilestone(milestone) ==
    LET nodes == ChildNodes(milestone, "issues")
        milestone_issues == [i \in 1..Len(nodes) |-> FormatMilestoneIssue(nodes[i])]
    IN [id |-> milestone.id,
        name |-> milestone.name,
        description |-> Get(milestone, "description", None),
        target_date |-> Get(milestone, "targetDate", None),
        status |-> Get(milestone, "status", None),
        progress |-> ScaleProgress(Get(milestone, "progress", 0)),
        sort_order |-> Get(milestone, "sortOrder", None),
        created_at |-> Get(milestone, "createdAt", None),
        updated_at |-> Get(milestone, "updatedAt", None),
        archived_at |-> Get(milestone, "archivedAt", None),
        issues |-> milestone_issues,
        issue_count |-> Len(milestone_issues)]

\* the KeyError raised while formatting one milestone node (<<>> if none)
MilestoneNodeError(milestone) ==
    LET ierr == FirstKeyError(ChildNodes(milestone, "issues"), <<"id", "title">>)
    IN IF ierr # <<>> THEN ierr ELSE MissingKey(milestone, <<"id", "name">>)

\* faulty variant: no filter, every issue is listed
IssuesWithoutMilestoneUnfiltered(all_issues) ==
    [i \in 1..Len(all_issues) |->
        [id |-> all_issues[i].id, identifier |-> all_issues[i].identifier,
         title |-> all_issues[i].title]]
\* faulty variant: the filter is inverted
IssuesWithoutMilestoneInverted(all_issues) ==
    LET rest == SelectSeq(all_issues, LAMBDA issue : TruthyStr(issue.milestone_id))
    IN [i \in 1..Len(rest) |->
           [id |-> rest[i].id, identifier |-> rest[i].identifier,
            title |-> rest[i].title]]
\* the issues of all_issues that are in no milestone
IssuesWithoutMilestone(all_issues) ==
    LET rest == SelectSeq(all_issues, LAMBDA issue : ~TruthyStr(issue.milestone_id))
    IN [i \in 1..Len(rest) |->
           [id |-> rest[i].id, identifier |-> rest[i].identifier,
            title |-> rest[i].title]]

FormatTeam(team) == [id |-> team.id, name |-> team.name, key |-> team.key]
FormatProjectInitiative(init) == [id |-> init.id, name |-> init.name]

\* the first exception of the formatting loops of _get_project (<<>> if none)
GetProjectError(project) ==
    LET inodes == ChildNodes(project, "issues")
        mnodes == ChildNodes(project, "projectMilestones")
        ierr == FirstKeyError(inodes, <<"id", "identifier", "title">>)
        derr == FirstKeyError(ChildNodes(project, "documents"), <<"id", "title">>)
        terr == FirstKeyError(ChildNodes(project, "teams"), <<"id", "name", "key">>)
        nerr == FirstKeyError(ChildNodes(project, "initiatives"), <<"id", "name">>)
        bad == {i \in 1..Len(mnodes) : MilestoneNodeError(mnodes[i]) # <<>>}
        merr == IF bad = {} THEN <<>>
                ELSE MilestoneNodeError(mnodes[CHOOSE i \in bad : \A j \in bad : i <= j])
        perr == MissingKey(project, <<"id", "name">>)
    IN IF ierr # <<>> THEN ierr
       ELSE IF derr # <<>> THEN derr
       ELSE IF terr # <<>> THEN terr
       ELSE IF nerr # <<>> THEN nerr
       ELSE IF merr # <<>> THEN merr
       ELSE perr

\* the try block of _get_project once the client call has completed
GetProjectBody(id, completion) ==
    IF completion.exc THEN completion
    ELSE LET ref == Get(completion.value, "project", Null) IN
         IF ~Truthy(ref) THEN Return([error |-> NotFoundMessage("Project", id)])
         ELSE LET project == ref[1]
                  inodes == ChildNodes(project, "issues")
                  dnodes == ChildNodes(project, "documents")
                  tnodes == ChildNodes(project, "teams")
                  nnodes == ChildNodes(project, "initiatives")
                  mnodes == ChildNodes(project, "projectMilestones")
                  all_issues == [i \in 1..Len(inodes) |-> FormatIssue(inodes[i])]
                  err == GetProjectError(project)
              IN IF err # <<>> THEN Raise(KeyErrorMessage(err[1]))
                 ELSE Return(
                     [id |-> project.id,
                      name |-> project.name,
                      description |-> Get(project, "description", None),
                      content |-> Get(project, "content", None),
                      state |-> Get(project, "state", None),
                      progress |-> Get(project, "progress", None),
                      lead |-> PersonRef(project, "lead"),
                      teams |-> [i \in 1..Len(tnodes) |-> FormatTeam(tnodes[i])],
                      initiatives |->
                          [i \in 1..Len(nnodes) |-> FormatProjectInitiative(nnodes[i])],
                      issues |-> all_issues,
                      issues_without_milestone |-> IssuesWithoutMilestone(all_issues),
                      documents |->
                          [i \in 1..Len(dnodes) |-> FormatChildDocument(dnodes[i])],
                      milestones |-> [i \in 1..Len(mnodes) |-> FormatMilestone(mnodes[i])],
                      target_date |-> Get(project, "targetDate", None),
                      completed_at |-> Get(project, "completedAt", None),
                      archived_at |-> Get(project, "archivedAt", None),
                      created_at |-> Get(project, "createdAt", None),
                      updated_at |-> Get(project, "updatedAt", None),
                      color |-> Get(project, "color", None),
                      icon |-> Get(project, "icon", None)])

_get_project(id, outcome) == TryExcept(GetProjectBody(id, query(outcome)))

(* The projects of the workspace: a project has at most MaxMilestones         *)
(* milestones and MaxIssues issues, and each issue refers to one of the       *)
(* project's milestones or to none (the invariant of the data model).         *)

IssueIds == <<"issue-1", "issue-2", "issue-3", "issue-4">>
IssueIdentifiers == <<"ENG-1", "ENG-2", "ENG-3", "ENG-4">>
IssueTitles == <<"Index data", "Ship API", "Write docs", "Fix login">>
MilestoneIds == <<"ms-1", "ms-2", "ms-3", "ms-4">>
MilestoneNames == <<"Alpha", "Beta", "GA", "Later">>
\* the progress of milestone j is Progresses[((j + shift) % 4) + 1]
Progresses == <<0, 50, 100, 150>>

\* the project of the workspace with milestone progresses ps and issue i in
\* milestone ms[i] (0: in none), with every field the remote schema has
WorkspaceProject(ps, ms) ==
    LET issue(i) ==
            [id |-> IssueIds[i], identifier |-> IssueIdentifiers[i],
             title |-> IssueTitles[i],
             state |-> <<[name |-> "Todo", type |-> "unstarted"]>>,
             priority |-> 2,
             projectMilestone |->
                 IF ms[i] = 0 THEN Null ELSE <<[id |-> MilestoneIds[ms[i]]]>>]
        issues == [i \in 1..Len(ms) |-> issue(i)]
        brief(node) == [id |-> node.id, identifier |-> node.identifier,
                        title |-> node.title]
        milestone(j) ==
            LET mine == SelectSeq(issues, LAMBDA node :
                            node.projectMilestone = <<[id |-> MilestoneIds[j]]>>)
            IN [id |-> MilestoneIds[j], name |-> MilestoneNames[j],
                status |-> "next", progress |-> ps[j],
                issues |-> [nodes |-> [i \in 1..Len(mine) |-> brief(mine[i])]]]
    IN [id |-> "proj-1", name |-> "Search API", state |-> "started", progress |-> 40,
        lead |-> <<[id |-> "u1", name |-> "Ann", email |-> "ann@example.com"]>>,
        teams |-> [nodes |-> <<[id |-> "team-1", name |-> "Core", key |-> "COR"]>>],
        initiatives |-> [nodes |-> <<[id |-> "init-1", name |-> "Alpha"]>>],
        documents |-> [nodes |-> <<[id |-> "doc-1", title |-> "Plan"]>>],
        issues |-> [nodes |-> issues],
        projectMilestones |-> [nodes |-> [j \in 1..Len(ps) |-> milestone(j)]]]

WorkspaceProjects ==
    UNION {{WorkspaceProject(ps, ms) :
               ps \in {[j \in 1..k |-> Progresses[((j + shift) % Len(Progresses)) + 1]] :
                          shift \in 1..Len(Progresses)},
               ms \in SeqsUpTo(0..k, MaxIssues)} :
           k \in 0..MaxMilestones}

\* what a server answering a query returns of obj: the selected fields only
Select(obj, fields) == [k \in DOMAIN obj \cap fields |-> obj[k]]

\* the project as the remote server answers the query of get_project
LiveProject(project) ==
    LET selected == Select(project, GetProjectFields)
        nodes == selected.issues.nodes
    IN [selected EXCEPT !.issues =
           [nodes |-> [i \in 1..Len(nodes) |-> Select(nodes[i], GetProjectIssueFields)]]]

\* project objects that lack a key the handler requires
MalformedProjects ==
    {[id |-> "proj-2"],
     [id |-> "proj-3", name |-> "Billing",
      teams |-> [nodes |-> <<[id |-> "team-1", name |-> "Core"]>>]],
     [id |-> "proj-4", name |-> "Billing",
      projectMilestones |-> [nodes |-> <<[id |-> "ms-1", progress |-> 50]>>]],
     [id |-> "proj-5", name |-> "Billing",
      projectMilestones |-> [nodes |-> <<[id |-> "ms-1", name |-> "Alpha"]>>]],
     [id |-> "proj-6", name |-> "Billing",
      issues |-> [nodes |-> <<[id |-> "issue-1", identifier |-> "ENG-1",
                               title |-> "Index"],
                              [id |-> "issue-2", title |-> "Rank"]>>]]}

\* the 2xx responses to get_project: of the remote server ("live"), and of a
\* substituted transport that returns every field the handler reads ("mock")
ProjectResponses ==
    {Ok([project |-> <<LiveProject(w)>>]) @@ [server |-> "live", workspace |-> w] :
        w \in WorkspaceProjects}
    \cup {Ok([project |-> <<w>>]) @@ [server |-> "mock", workspace |-> w] :
        w \in WorkspaceProjects}
    \cup EntityResponses("project", MalformedProjects)

GetProject ==
    /\ Started
    /\ op = "none"
    /\ UNCHANGED <<linear_client, calls>>
    /\ \E id \in Ids :
       \E outcome \in Failures \cup ProjectResponses :
           LET r == _get_project(id, outcome) IN
           /\ op' = "get_project"
           /\ args' = [id |-> id]
           /\ sent' = Posted(get_project(id), outcome)
           /\ upstream' = outcome
           /\ result' = r.returned
           /\ raised' = r.escaped

---------------------------------------------------------------------------
(* The program *)

\* the bound on the calls the host has in flight at once
MaxCalls == 2
Slots == 1..MaxCalls

\* a slot without a call
IdleFrame ==
    [pc |-> "idle", op |-> "none", args |-> EmptyObj, request |-> EmptyObj,
     response |-> [kind |-> "none"], result |-> EmptyObj]

Init ==
    /\ op = "none"
    /\ args = EmptyObj
    /\ sent = <<>>
    /\ upstream = [kind |-> "none"]
    /\ result = EmptyObj
    /\ raised = FALSE
    /\ \E environ \in Environments : linear_client = Startup(environ)
    /\ calls = [s \in Slots |-> IdleFrame]

\* the caller takes the returned mapping; the values of the call end with it
TakeResult ==
    /\ op # "none"
    /\ UNCHANGED <<linear_client, calls>>
    /\ op' = "none"
    /\ args' = EmptyObj
    /\ sent' = <<>>
    /\ upstream' = [kind |-> "none"]
    /\ result' = EmptyObj
    /\ raised' = FALSE

Next ==
    \/ ListInitiatives
    \/ GetInitiative
    \/ ListProjects
    \/ GetProject
    \/ ListDocuments
    \/ GetDocument
    \/ TakeResult

Spec == Init /\ [][Next]_vars

---------------------------------------------------------------------------
(* Calls in flight together: the host starts a call while others await    *)
(* their response. Each call of an async def has its own frame; the one   *)
(* LinearClient is shared and query opens a new AsyncClient per call.     *)

ListArgs(limit) ==
    [limit |-> limit, search |-> None, include_archived |-> FALSE,
     cursor_after |-> None, cursor_before |-> None]

\* the calls the host issues
HostCalls ==
    {[op |-> "list_initiatives", args |-> ListArgs(l)] : l \in {50, 1000}}
    \cup {[op |-> "list_projects",
           args |-> ListArgs(l) @@ [team_id |-> None, initiative_id |-> "init-1"]] :
              l \in {50, 1000}}
    \cup {[op |-> "list_documents",
           args |-> ListArgs(l) @@ [project_id |-> "proj-1", initiative_id |-> None]] :
              l \in {50, 1000}}
    \cup {[op |-> o, args |-> [id |-> id]] :
              o \in {"get_initiative", "get_project", "get_document"}, id \in Ids}

\* what the POST of a call of operation o can meet
HostOutcomes(o) ==
    {[kind |-> "status",
      response |-> [status_code |-> 401, text |-> "Bad credentials", json |-> <<>>]],
     [kind |-> "network", cause |-> "timed out"]}
    \cup
    CASE o = "list_initiatives" ->
             {Ok([initiatives |-> [nodes |-> <<[id |-> "init-2", name |-> "Beta",
                                                owner |-> Null]>>,
                                   pageInfo |-> FullPageInfo]]), OkNoData}
      [] o = "list_projects" ->
             {Ok([projects |-> [nodes |-> <<>>, pageInfo |-> FullPageInfo]]), OkNoData}
      [] o = "list_documents" ->
             {Ok([documents |-> [nodes |-> <<[id |-> "doc-2", title |-> "Notes"]>>]]),
              OkNoData}
      [] o = "get_initiative" ->
             {Ok([initiative |-> Null]),
              Ok([initiative |-> <<[id |-> "init-2", name |-> "Beta", owner |-> Null]>>])}
      [] o = "get_project" ->
             {Ok([project |-> Null]), Ok([project |-> <<[id |-> "proj-9"]>>])}
      [] o = "get_document" ->
             {Ok([document |-> Null]),
              Ok([document |-> <<[id |-> "doc-2", title |-> "Notes"]>>])}

\* the request operation o posts for arguments a
Request(o, a) ==
    CASE o = "list_initiatives" ->
             get_initiatives(ClampLimit(a.limit), a.search, a.include_archived,
                             a.cursor_after, a.cursor_before)
      [] o = "list_projects" ->
             get_projects(ClampLimit(a.limit), a.search, a.include_archived,
                          a.team_id, a.initiative_id, a.cursor_after, a.cursor_before)
      [] o = "list_documents" ->
             get_documents(ClampLimit(a.limit), a.search, a.include_archived,
                           a.project_id, a.initiative_id, a.cursor_after,
                           a.cursor_before)
      [] o = "get_initiative" -> get_initiative(a.id)
      [] o = "get_project" -> get_project(a.id)
      [] o = "get_document" -> get_document(a.id)

\* what operation o returns for arguments a once its POST met outcome
Handler(o, a, outcome) ==
    CASE o = "list_initiatives" -> _list_initiatives(outcome)
      [] o = "list_projects" -> _list_projects(outcome)
      [] o = "list_documents" -> _list_documents(outcome)
      [] o = "get_initiative" -> _get_initiative(a.id, outcome)
      [] o = "get_project" -> _get_project(a.id, outcome)
      [] o = "get_document" -> _get_document(a.id, outcome)

\* faulty variant: the arguments are kept on the one object the calls of an
\* operation share, so a call resumes with those of the earliest pending one
LocalsShared(frames, slot) ==
    LET pending == {s \in DOMAIN frames :
                       frames[s].pc = "awaiting" /\ frames[s].op = frames[slot].op}
    IN frames[CHOOSE s \in pending : \A t \in pending : s <= t]
\* the local variables a call resumes with after its await: its own
Locals(frames, slot) == frames[slot]

\* the host calls a tool: the handler runs up to the await of client.post
StartCall(slot) ==
    /\ Started
    /\ calls[slot].pc = "idle"
    /\ \E call \in HostCalls :
           calls' = [calls EXCEPT ![slot] =
                        [pc |-> "awaiting", op |-> call.op, args |-> call.args,
                         request |-> [body |-> Request(call.op, call.args),
                                      url |-> linear_client.base_url,
                                      headers |-> linear_client.headers],
                         response |-> [kind |-> "none"], result |-> EmptyObj]]
    /\ UNCHANGED <<seqVars, linear_client>>

\* the POST of a call completes or fails: the handler runs to its return
Resume(slot) ==
    /\ calls[slot].pc = "awaiting"
    /\ \E outcome \in HostOutcomes(calls[slot].op) :
           LET frame == Locals(calls, slot) IN
           calls' = [calls EXCEPT ![slot] =
                        [@ EXCEPT !.pc = "done", !.response = outcome,
                                  !.result = Handler(frame.op, frame.args, outcome).returned]]
    /\ UNCHANGED <<seqVars, linear_client>>

\* the host takes the result; the frame of the call ends
ReturnCall(slot) ==
    /\ calls[slot].pc = "done"
    /\ calls' = [calls EXCEPT ![slot] = IdleFrame]
    /\ UNCHANGED <<seqVars, linear_client>>

NextConc ==
    \/ \E slot \in Slots : StartCall(slot)
    \/ \E slot \in Slots : Resume(slot)
    \/ \E slot \in Slots : ReturnCall(slot)

SpecConc == Init /\ [][NextConc]_vars

---------------------------------------------------------------------------
(* Vocabulary of the properties *)

ListOps == {"list_initiatives", "list_projects", "list_documents"}
GetOps == {"get_initiative", "get_project", "get_document"}

\* the key of the item array of a list result
ItemsKey(o) ==
    CASE o = "list_initiatives" -> "initiatives"
      [] o = "list_projects" -> "projects"
      [] o = "list_documents" -> "documents"

\* the entity field of the data of a get query, and the entity's name in messages
EntityField(o) ==
    CASE o = "get_initiative" -> "initiative"
      [] o = "get_project" -> "project"
      [] o = "get_document" -> "document"
EntityName(o) ==
    CASE o = "get_initiative" -> "Initiative"
      [] o = "get_project" -> "Project"
      [] o = "get_document" -> "Document"

IsError == "error" \in DOMAIN result

\* the transport failed: non-2xx status, network failure, or an errors envelope
TransportFailed ==
    \/ upstream.kind \in {"status", "network"}
    \/ upstream.kind = "ok" /\ "errors" \in DOMAIN upstream.envelope

\* the data of a 2xx envelope without errors
UpstreamData == Get(upstream.envelope, "data", EmptyObj)

\* a get_project call returned a project detail
ProjectReturned == op = "get_project" /\ ~IsError

\* [id, identifier, title] of an issue of the output issues list
Brief(issue) == [id |-> issue.id, identifier |-> issue.identifier, title |-> issue.title]

\* how often entry x occurs in the sequence s
Occurrences(s, x) == Cardinality({i \in 1..Len(s) : s[i] = x})

\* how often x occurs in issues_without_milestone and in all milestones[*].issues
GroupedOccurrences(r, x) ==
    LET inMilestone[j \in 0..Len(r.milestones)] ==
            IF j = 0 THEN 0
            ELSE inMilestone[j - 1] + Occurrences(r.milestones[j].issues, x)
    IN Occurrences(r.issues_without_milestone, x) + inMilestone[Len(r.milestones)]

---------------------------------------------------------------------------
(* C1: for every list operation and every integer limit, the page size    *)
(* `first` sent upstream is min(limit, 250): 250 for every limit > 250,   *)
(* and such a call is sent and answered like any other, not rejected.     *)
C1_LimitClamped ==
    op \in ListOps =>
        /\ Len(sent) = 1
        /\ sent[1].variables.first =
               (IF args.limit > MaxPageSize THEN MaxPageSize ELSE args.limit)
        /\ (args.limit > MaxPageSize /\ ~TransportFailed /\ UpstreamData = EmptyObj
                => ~IsError)

C1_Witness ==
    /\ op \in ListOps
    /\ args.limit = 1000
    /\ sent[1].variables.first = 250
    /\ ~IsError

(* C2: no list or get operation raises to its caller; on a transport      *)
(* failure it returns exactly {error: message}, the message being the     *)
(* text of the failure the transport layer raised.                        *)
C2_FailuresAreData ==
    op # "none" =>
        /\ raised = FALSE
        /\ (TransportFailed => result = [error |-> query(upstream).msg])

C2_Witness ==
    /\ op = "get_project"
    /\ upstream.kind = "network"
    /\ raised = FALSE
    /\ result = [error |-> <<"Network error connecting to Linear API: ", "timed out">>]

(* C3: for get_initiative, get_project and get_document and every id,     *)
(* when the transport succeeds and the entity field of the data is null   *)
(* or absent, the result is exactly                                       *)
(* {error: "<Entity> with ID '<id>' not found"}.                          *)
C3_NotFound ==
    (/\ op \in GetOps
     /\ ~TransportFailed
     /\ \/ EntityField(op) \notin DOMAIN UpstreamData
        \/ UpstreamData[EntityField(op)] = Null)
    => result = [error |-> <<EntityName(op), " with ID '", args.id, "' not found">>]

C3_Witness ==
    /\ op = "get_document"
    /\ args.id = "missing-id"
    /\ upstream = Ok([document |-> Null])
    /\ result = [error |-> <<"Document", " with ID '", "missing-id", "' not found">>]

(* C4: in every successful _get_project result, issues_without_milestone  *)
(* and the milestones[*].issues lists together hold every issue of the    *)
(* output issues list exactly once, and no issue that is not in it.       *)
C4_Partition ==
    ProjectReturned =>
        /\ \A i \in 1..Len(result.issues) :
               GroupedOccurrences(result, Brief(result.issues[i])) = 1
        /\ \A x \in Range(result.issues_without_milestone) :
               \E i \in 1..Len(result.issues) : x = Brief(result.issues[i])
        /\ \A j \in 1..Len(result.milestones) :
               \A x \in Range(result.milestones[j].issues) :
                   \E i \in 1..Len(result.issues) : x = Brief(result.issues[i])

C4_Witness ==
    /\ ProjectReturned
    /\ Len(result.issues) = 2
    /\ Len(result.issues_without_milestone) = 1
    /\ \E j \in 1..Len(result.milestones) : Len(result.milestones[j].issues) = 1

(* C5: in _get_project every issue of the project that carries a          *)
(* milestone id m is recorded in the output under the milestone whose id  *)
(* is m, and the issues list of each output milestone is exactly the      *)
(* project issues whose milestone_id is that milestone's id.              *)
C5_IssuesUnderTheirMilestone ==
    (ProjectReturned /\ "workspace" \in DOMAIN upstream) =>
        /\ \A i \in 1..Len(upstream.workspace.issues.nodes) :
               LET issue == upstream.workspace.issues.nodes[i] IN
               Truthy(issue.projectMilestone) =>
                   \E j \in 1..Len(result.milestones) :
                       /\ result.milestones[j].id = issue.projectMilestone[1].id
                       /\ \E x \in Range(result.milestones[j].issues) : x.id = issue.id
        /\ \A j \in 1..Len(result.milestones) :
               result.milestones[j].issues =
                   LET mine == SelectSeq(result.issues, LAMBDA issue :
                                   issue.milestone_id = result.milestones[j].id)
                   IN [i \in 1..Len(mine) |-> Brief(mine[i])]

(* C6: the project detail holds the project's full milestones collection: *)
(* the query of LinearClient.get_project requests the milestones and each *)
(* issue's milestone reference, and for a project with k milestones       *)
(* upstream the output milestones list has k entries.                     *)
C6_MilestonesReturned ==
    (ProjectReturned /\ "workspace" \in DOMAIN upstream /\ upstream.server = "live") =>
        LET k == Len(upstream.workspace.projectMilestones.nodes) IN
        /\ Len(result.milestones) = k
        /\ (k > 0 => /\ "projectMilestones" \in GetProjectFields
                      /\ "projectMilestone" \in GetProjectIssueFields)

(* C7: in every successful _get_project result, issues_without_milestone  *)
(* holds exactly the issues of `issues` whose milestone_id is null, each  *)
(* once and in the order of `issues`, and none that has a milestone id.   *)
C7_IssuesWithoutMilestone ==
    ProjectReturned =>
        LET lacking == {i \in 1..Len(result.issues) : result.issues[i].milestone_id = None}
            rest == result.issues_without_milestone
        IN /\ Len(rest) = Cardinality(lacking)
           /\ \A k \in 1..Len(rest) :
                  \E i \in lacking :
                      /\ rest[k] = Brief(result.issues[i])
                      /\ Cardinality({h \in lacking : h < i}) = k - 1

C7_Witness ==
    /\ ProjectReturned
    /\ Len(result.issues) = 2
    /\ result.issues[1].milestone_id = "ms-1"
    /\ result.issues[2].milestone_id = None
    /\ result.issues_without_milestone = <<Brief(result.issues[2])>>

(* C8: for every milestone entry of a successful _get_project result the  *)
(* output progress is the upstream progress divided by 100, and it lies   *)
(* in [0.0, 1.0] whenever the upstream progress lies in [0, 100].         *)
C8_ProgressRescaled ==
    ProjectReturned =>
        LET nodes == ChildNodes(UpstreamData.project[1], "projectMilestones") IN
        /\ Len(result.milestones) = Len(nodes)
        /\ \A j \in 1..Len(nodes) :
               "progress" \in DOMAIN nodes[j] =>
                   LET out == result.milestones[j].progress IN
                   /\ out.den > 0
                   /\ out.num * 100 = nodes[j].progress * out.den
                   /\ (0 <= nodes[j].progress /\ nodes[j].progress <= 100
                          => 0 <= out.num /\ out.num <= out.den)

C8_Witness ==
    /\ ProjectReturned
    /\ Len(result.milestones) = 2
    /\ UpstreamData.project[1].projectMilestones.nodes[1].progress = 50
    /\ result.milestones[1].progress = [num |-> 50, den |-> 100]
    /\ UpstreamData.project[1].projectMilestones.nodes[2].progress = 100

(* C9: for every successful result of a list operation, total_count is    *)
(* the length of the item array of that page, whatever upstream returned. *)
C9_TotalCount ==
    (op \in ListOps /\ ~IsError) =>
        result.total_count = Len(result[ItemsKey(op)])

C9_Witness ==
    /\ op = "list_documents"
    /\ ~IsError
    /\ Len(result.documents) = 2
    /\ result.documents[1] = result.documents[2]
    /\ result.total_count = 2

(* C10: every result has one of two disjoint shapes: the key `error` and  *)
(* no other key, or a success shape without the key `error`, which for a  *)
(* list operation holds the item array, total_count and pagination.       *)
C10_TwoShapes ==
    op # "none" =>
        /\ (IsError => DOMAIN result = {"error"})
        /\ (~IsError /\ op \in ListOps =>
               {ItemsKey(op), "total_count", "pagination"} \subseteq DOMAIN result)
        /\ (~IsError /\ op \in GetOps => "id" \in DOMAIN result)

C10_Witness ==
    /\ op = "list_projects"
    /\ ~TransportFailed
    /\ "projects" \in DOMAIN UpstreamData
    /\ Len(ChildNodes(UpstreamData, "projects")) = 2
    /\ "id" \in DOMAIN UpstreamData.projects.nodes[1]
    /\ DOMAIN result = {"error"}

---------------------------------------------------------------------------
(* Vocabulary of the request properties *)

\* the page size a list call with this limit is to send
ClampedLimit(limit) == IF limit > MaxPageSize THEN MaxPageSize ELSE limit

\* a filter argument that was supplied: neither None nor the empty string
Supplied(x) == x # None /\ x # ""

\* the request the client builds for list operation o called with arguments a
ListRequest(o, a) ==
    CASE o = "list_initiatives" ->
             get_initiatives(ClampLimit(a.limit), a.search, a.include_archived,
                             a.cursor_after, a.cursor_before)
      [] o = "list_projects" ->
             get_projects(ClampLimit(a.limit), a.search, a.include_archived,
                          a.team_id, a.initiative_id, a.cursor_after, a.cursor_before)
      [] o = "list_documents" ->
             get_documents(ClampLimit(a.limit), a.search, a.include_archived,
                           a.project_id, a.initiative_id, a.cursor_after,
                           a.cursor_before)

\* the filter object of the request sent ({} when the variables have none)
SentFilter == Get(sent[1].variables, "filter", EmptyObj)

\* some filter argument of the last list call was supplied
AnyFilterSupplied ==
    \/ Supplied(args.search)
    \/ op = "list_projects" /\ (Supplied(args.team_id) \/ Supplied(args.initiative_id))
    \/ op = "list_documents" /\ (Supplied(args.project_id) \/ Supplied(args.initiative_id))

---------------------------------------------------------------------------
C12_IncludeArchivedChangesFilter ==
    op \in {"list_projects", "list_documents"} =>
        Get(ListRequest(op, [args EXCEPT !.include_archived = ~@]).variables,
            "filter", EmptyObj) # SentFilter

(* C13: for list_initiatives a search term that is present becomes a      *)
(* contains-filter on the name: the variables carry                       *)
(* filter = {name: {contains: search}} and differ from those sent with    *)
(* no search term.                                                        *)
C13_InitiativeSearchFilter ==
    (op = "list_initiatives" /\ Supplied(args.search)) =>
        /\ "filter" \in DOMAIN sent[1].variables
        /\ SentFilter = [name |-> [contains |-> args.search]]
        /\ sent[1].variables # ListRequest(op, [args EXCEPT !.search = None]).variables

(* C14: for list_projects and list_documents the filter object holds one  *)
(* entry per supplied filter and nothing else: search a contains-filter   *)
(* on name (projects) or title (documents); team_id, initiative_id and    *)
(* project_id an equals-filter on the id of the relationship; all of the  *)
(* supplied ones together.                                                *)
C14_FilterEntries ==
    /\ op = "list_projects" =>
           /\ DOMAIN SentFilter =
                  (IF Supplied(args.search) THEN {"name"} ELSE {})
                  \cup (IF Supplied(args.team_id) THEN {"teams"} ELSE {})
                  \cup (IF Supplied(args.initiative_id) THEN {"initiatives"} ELSE {})
           /\ ("name" \in DOMAIN SentFilter =>
                  SentFilter.name = [contains |-> args.search])
           /\ ("teams" \in DOMAIN SentFilter =>
                  SentFilter.teams = [some |-> [id |-> [eq |-> args.team_id]]])
           /\ ("initiatives" \in DOMAIN SentFilter =>
                  SentFilter.initiatives = [some |-> [id |-> [eq |-> args.initiative_id]]])
    /\ op = "list_documents" =>
           /\ DOMAIN SentFilter =
                  (IF Supplied(args.search) THEN {"title"} ELSE {})
                  \cup (IF Supplied(args.project_id) THEN {"project"} ELSE {})
                  \cup (IF Supplied(args.initiative_id) THEN {"initiative"} ELSE {})
           /\ ("title" \in DOMAIN SentFilter =>
                  SentFilter.title = [contains |-> args.search])
           /\ ("project" \in DOMAIN SentFilter =>
                  SentFilter.project = [id |-> [eq |-> args.project_id]])
           /\ ("initiative" \in DOMAIN SentFilter =>
                  SentFilter.initiative = [id |-> [eq |-> args.initiative_id]])

C14_Witness ==
    /\ op = "list_projects"
    /\ args.search = "API"
    /\ args.team_id = "team-1"
    /\ args.initiative_id = "init-1"
    /\ DOMAIN SentFilter = {"name", "teams", "initiatives"}

(* C15: the variables of every list request are the clamped page size,    *)
(* after and before passed through from cursor_after and cursor_before    *)
(* (null when not given), and a filter entry only when some filter        *)
(* applies; with no filter the filter key is absent, not empty or null.   *)
C15_Variables ==
    op \in ListOps =>
        LET v == sent[1].variables IN
        /\ {"first", "after", "before"} \subseteq DOMAIN v
        /\ DOMAIN v \subseteq {"first", "after", "before", "filter"}
        /\ v.first = ClampedLimit(args.limit)
        /\ v.after = args.cursor_after
        /\ v.before = args.cursor_before
        /\ ("filter" \in DOMAIN v => AnyFilterSupplied /\ DOMAIN v.filter # {})
        /\ (~AnyFilterSupplied => "filter" \notin DOMAIN v)

C15_Witness ==
    /\ op = "list_documents"
    /\ ~AnyFilterSupplied
    /\ args.cursor_after = "c2"
    /\ args.limit = 251
    /\ sent[1].variables = [first |-> 250, after |-> "c2", before |-> None]

(* C16: every successful list result has a pagination block of exactly    *)
(* the four fields has_next_page, has_previous_page, end_cursor and       *)
(* start_cursor; a field upstream lacks is false (the two flags) or null  *)
(* (the two cursors), any other equals the upstream value.                *)
C16_Pagination ==
    (op \in ListOps /\ ~IsError) =>
        LET pi == Get(Get(UpstreamData, ItemsKey(op), EmptyObj), "pageInfo", EmptyObj)
            p == result.pagination
        IN /\ DOMAIN p = {"has_next_page", "has_previous_page", "end_cursor",
                          "start_cursor"}
           /\ p.has_next_page = (IF "hasNextPage" \in DOMAIN pi THEN pi.hasNextPage ELSE FALSE)
           /\ p.has_previous_page =
                  (IF "hasPreviousPage" \in DOMAIN pi THEN pi.hasPreviousPage ELSE FALSE)
           /\ p.end_cursor = (IF "endCursor" \in DOMAIN pi THEN pi.endCursor ELSE None)
           /\ p.start_cursor = (IF "startCursor" \in DOMAIN pi THEN pi.startCursor ELSE None)

C16_Witness ==
    /\ op = "list_initiatives"
    /\ ~TransportFailed
    /\ "initiatives" \in DOMAIN UpstreamData
    /\ "pageInfo" \in DOMAIN UpstreamData.initiatives
    /\ UpstreamData.initiatives.pageInfo = [hasNextPage |-> TRUE]
    /\ result.pagination = [has_next_page |-> TRUE, has_previous_page |-> FALSE,
                            end_cursor |-> None, start_cursor |-> None]

(* C17: every invocation of one of the six operations posts exactly one   *)
(* request upstream, also when that request fails: there is no retry.     *)
C17_OneRequest ==
    op # "none" =>
        /\ Len(sent) = 1
        /\ sent[1].query =
               (CASE op = "list_initiatives" -> "GetInitiatives"
                  [] op = "get_initiative" -> "GetInitiative"
                  [] op = "list_projects" -> "GetProjects"
                  [] op = "get_project" -> "GetProject"
                  [] op = "list_documents" -> "GetDocuments"
                  [] op = "get_document" -> "GetDocument")

C17_Witness ==
    /\ op = "get_initiative"
    /\ upstream.kind = "network"
    /\ Len(sent) = 1
    /\ IsError

(* C19: on HTTP 401 each of the six operations returns {error: message}  *)
(* and the message holds the remediation text: the key is invalid or      *)
(* expired, and where to get a new one.                                   *)
C19_AuthRemediation ==
    (op # "none" /\ upstream.kind = "status" /\ upstream.response.status_code = 401) =>
        /\ DOMAIN result = {"error"}
        /\ ~raised
        /\ AuthFailedText \in Range(result.error)
        /\ AuthNewKeyText \in Range(result.error)

C19_Witness ==
    /\ op = "list_documents"
    /\ upstream.kind = "status"
    /\ upstream.response.status_code = 401
    /\ result = [error |-> <<AuthFailedText, AuthNewKeyText>>]

\* the message holds a remediation hint: key format and key source (the
\* text added for 400) or the key source (the text added for 401)
HasHint(msg) == Hint400 \in Range(msg) \/ AuthNewKeyText \in Range(msg)

(* C20: for every HTTP status from 400 to 499 the error message embeds    *)
(* the response body; for 400 and 401 it also holds a remediation hint;   *)
(* for other 4xx statuses it holds none.                                  *)
C20_BodyAndHint ==
    (op # "none" /\ upstream.kind = "status"
       /\ upstream.response.status_code \in 400..499) =>
        /\ IsError
        /\ ErrorDetail(upstream.response) \in Range(result.error)
        /\ (upstream.response.status_code \in {400, 401} => HasHint(result.error))
        /\ (upstream.response.status_code \notin {400, 401} => ~HasHint(result.error))

(* C18: calls in flight together share no mutable state: under every    *)
(* interleaving the result of a finished call is what its operation       *)
(* returns for its own arguments and its own upstream response, the       *)
(* request it posted is the one built from its own arguments, and the     *)
(* shared client is as constructed.                                       *)
C18_NoSharedState ==
    /\ Started => linear_client = LinearClient
    /\ \A s \in Slots :
           /\ calls[s].pc \in {"awaiting", "done"} =>
                  calls[s].request.body = Request(calls[s].op, calls[s].args)
           /\ calls[s].pc = "done" =>
                  calls[s].result =
                      Handler(calls[s].op, calls[s].args, calls[s].response).returned

\* a later call of the same operation finishes while an earlier one with
\* another id still awaits its response
C18_Witness ==
    /\ calls[1].pc = "awaiting"
    /\ calls[2].pc = "done"
    /\ calls[1].op = "get_initiative"
    /\ calls[2].op = "get_initiative"
    /\ calls[1].args.id = "id-1"
    /\ calls[2].args.id = "missing-id"
    /\ calls[2].response = Ok([initiative |-> Null])
    /\ calls[2].result = [error |-> NotFoundMessage("Initiative", "missing-id")]

---------------------------------------------------------------------------
(* Vocabulary of the transport properties *)

\* the 2xx envelope the last call received has an errors key
HasErrorsKey == upstream.kind = "ok" /\ "errors" \in DOMAIN upstream.envelope

\* what operation o returns for arguments a when query returns data
ResultFor(o, a, data) ==
    (CASE o = "list_initiatives" -> TryExcept(ListInitiativesBody(Return(data)))
       [] o = "list_projects" -> TryExcept(ListProjectsBody(Return(data)))
       [] o = "list_documents" -> TryExcept(ListDocumentsBody(Return(data)))
       [] o = "get_initiative" -> TryExcept(GetInitiativeBody(a.id, Return(data)))
       [] o = "get_project" -> TryExcept(GetProjectBody(a.id, Return(data)))
       [] o = "get_document" -> TryExcept(GetDocumentBody(a.id, Return(data)))).returned

(* C21: for a non-success HTTP status other than 400 and 401 the error    *)
(* message carries the numeric status code and the response body, and no  *)
(* remediation hint.                                                      *)
C21_OtherStatus ==
    (op # "none" /\ upstream.kind = "status"
       /\ upstream.response.status_code \notin {400, 401}) =>
        /\ DOMAIN result = {"error"}
        /\ ToString(upstream.response.status_code) \in Range(result.error)
        /\ ErrorDetail(upstream.response) \in Range(result.error)
        /\ ~HasHint(result.error)

C21_Witness ==
    /\ op = "get_project"
    /\ upstream.kind = "status"
    /\ upstream.response.status_code = 503
    /\ result = [error |-> <<"Linear API error ", "503", ": ", "Bad credentials">>]

(* C22: on a 2xx envelope whose errors array is present and non-empty     *)
(* query fails with a message that lists the message field of every       *)
(* error, in the array's order, one per line; no data is returned even    *)
(* when the envelope also carries data.                                   *)
C22_GraphQLErrors ==
    (op # "none" /\ HasErrorsKey /\ Len(upstream.envelope.errors) > 0) =>
        LET errors == upstream.envelope.errors
            lines == [i \in 1..Len(errors) |->
                         IF "message" \in DOMAIN errors[i]
                         THEN <<"- ", errors[i].message>>
                         ELSE <<"- ">> \o PyStr(errors[i])]
        IN /\ DOMAIN result = {"error"}
           /\ result.error = <<"GraphQL errors:\n">> \o JoinLines(lines)

C22_Witness ==
    /\ op = "list_projects"
    /\ HasErrorsKey
    /\ "data" \in DOMAIN upstream.envelope
    /\ result = [error |-> <<"GraphQL errors:\n", "- ", "Rate limited", "\n",
                             "- ", "Entity not found">>]

(* C23: query fails with a GraphQL error only if the errors array is      *)
(* present and non-empty: on a 2xx envelope whose errors is absent or an  *)
(* empty array the call succeeds and the operation works on the           *)
(* envelope's data.                                                       *)
C23_EmptyErrorsSucceed ==
    (op # "none" /\ upstream.kind = "ok"
       /\ (~HasErrorsKey \/ upstream.envelope.errors = <<>>)) =>
        result = ResultFor(op, args, Get(upstream.envelope, "data", EmptyObj))

(* C24: constructing the client with no API key, neither passed nor in   *)
(* the environment, fails at construction; the server builds its one      *)
(* client at startup, so no operation runs and no request is posted       *)
(* without a non-empty credential.                                        *)
C24_NoKeyNoRequest ==
    /\ ~Started =>
           /\ linear_client = [failed |-> <<KeyRequiredText>>]
           /\ op = "none"
           /\ sent = <<>>
           /\ \A s \in Slots : calls[s].pc = "idle"
    /\ (op # "none" \/ sent # <<>>) =>
           /\ Started
           /\ linear_client.api_key \notin {None, ""}
           /\ linear_client.headers.Authorization = linear_client.api_key

\* the server was started without a key: construction failed, nothing ran
C24_Witness ==
    /\ linear_client = [failed |-> <<KeyRequiredText>>]
    /\ op = "none"
    /\ sent = <<>>

---------------------------------------------------------------------------
(* Vocabulary of the formatting properties *)

\* the object-or-null value of field in an upstream object (null when absent)
UpstreamRef(obj, field) == IF field \in DOMAIN obj THEN obj[field] ELSE Null

\* a reference that is null, or an object without any field
NoRef(ref) == Len(ref) = 0 \/ DOMAIN ref[1] = {}

\* out is null when ref is none, else one object with exactly the fields
\* keys, each with the value ref has for it (null where ref has none)
NestedFrom(out, ref, keys) ==
    IF NoRef(ref) THEN out = Null
    ELSE /\ Len(out) = 1
         /\ DOMAIN out[1] = keys
         /\ \A k \in keys :
                out[1][k] = (IF k \in DOMAIN ref[1] THEN ref[1][k] ELSE None)

UpstreamNodes == ChildNodes(UpstreamData, ItemsKey(op))

\* the name of the person or entity a reference points to, or null
NameOf(ref) ==
    IF NoRef(ref) THEN None
    ELSE IF "name" \in DOMAIN ref[1] THEN ref[1].name ELSE None

\* names holds the name of every node of the connection field of obj, in order
NamesOf(names, obj, field) ==
    LET nodes == ChildNodes(obj, field) IN
    /\ Len(names) = Len(nodes)
    /\ \A j \in 1..Len(nodes) : names[j] = nodes[j].name

(* C26: in list results a person reference is flattened to the person's   *)
(* name or null (initiative owner, project lead, document creator), and   *)
(* in _list_projects teams and initiatives are arrays of the names of     *)
(* the upstream nodes, one per node, in upstream order.                   *)
C26_Flattened ==
    (op \in ListOps /\ ~IsError) =>
        LET items == result[ItemsKey(op)] IN
        /\ Len(items) = Len(UpstreamNodes)
        /\ \A i \in 1..Len(UpstreamNodes) :
               LET node == UpstreamNodes[i] IN
               CASE op = "list_initiatives" ->
                        items[i].owner = NameOf(UpstreamRef(node, "owner"))
                 [] op = "list_projects" ->
                        /\ items[i].lead = NameOf(UpstreamRef(node, "lead"))
                        /\ NamesOf(items[i].teams, node, "teams")
                        /\ NamesOf(items[i].initiatives, node, "initiatives")
                 [] op = "list_documents" ->
                        items[i].creator = NameOf(UpstreamRef(node, "creator"))

C26_Witness ==
    /\ op = "list_projects"
    /\ ~IsError
    /\ Len(result.projects) = 2
    /\ result.projects[1].lead = "Ann"
    /\ result.projects[1].teams = <<"Core", "Web">>
    /\ result.projects[1].initiatives = <<"Alpha">>
    /\ result.projects[2].lead = None
    /\ result.projects[2].teams = <<>>

\* the pagination block of a list result when upstream gave no pageInfo
DefaultPagination ==
    [has_next_page |-> FALSE, has_previous_page |-> FALSE, end_cursor |-> None,
     start_cursor |-> None]

(* C27: on a 2xx envelope without GraphQL errors query returns the        *)
(* envelope's data, or an empty mapping when data is absent; so for an    *)
(* envelope without data each list operation returns an empty item        *)
(* array, total_count 0 and the default pagination, and each get          *)
(* operation returns the not-found error.                                 *)
C27_DataOrEmpty ==
    (op # "none" /\ upstream.kind = "ok" /\ ~HasErrorsKey) =>
        /\ result = ResultFor(op, args, IF "data" \in DOMAIN upstream.envelope
                                        THEN upstream.envelope.data ELSE EmptyObj)
        /\ ("data" \notin DOMAIN upstream.envelope /\ op \in ListOps) =>
               /\ DOMAIN result = {ItemsKey(op), "total_count", "pagination"}
               /\ result[ItemsKey(op)] = <<>>
               /\ result.total_count = 0
               /\ result.pagination = DefaultPagination
        /\ ("data" \notin DOMAIN upstream.envelope /\ op \in GetOps) =>
               result = [error |-> <<EntityName(op), " with ID '", args.id, "' not found">>]

C27_Witness ==
    /\ op = "list_documents"
    /\ upstream = OkNoData
    /\ result = [documents |-> <<>>, total_count |-> 0, pagination |-> DefaultPagination]

(* C28: for an HTTP 400 and for an HTTP 401 response the message of the   *)
(* error contains the numeric status code ("400", "401"), so that a       *)
(* caller testing the message for these codes detects the failure.        *)
C28_CodeInMessage ==
    (op # "none" /\ upstream.kind = "status"
       /\ upstream.response.status_code \in {400, 401}) =>
        /\ IsError
        /\ ToString(upstream.response.status_code) \in Range(result.error)

\* some node of nodes lacks one of the fields required
Lacking(nodes, required) ==
    \E i \in 1..Len(nodes) : \E k \in required : k \notin DOMAIN nodes[i]

\* items has one entry per node, in the order of nodes, with the node's id
OnePerNode(items, nodes) ==
    /\ Len(items) = Len(nodes)
    /\ \A i \in 1..Len(nodes) : items[i].id = nodes[i].id

\* the entity a get call received (a one-element reference; null if none)
UpstreamEntity == UpstreamRef(UpstreamData, EntityField(op))

\* some node of the response of the last call lacks a field its handler requires
NodeLacksField ==
    CASE op = "list_initiatives" -> Lacking(UpstreamNodes, {"id", "name"})
      [] op = "list_projects" ->
             \/ Lacking(UpstreamNodes, {"id", "name"})
             \/ \E i \in 1..Len(UpstreamNodes) :
                    \/ Lacking(ChildNodes(UpstreamNodes[i], "teams"), {"name"})
                    \/ Lacking(ChildNodes(UpstreamNodes[i], "initiatives"), {"name"})
      [] op = "list_documents" -> Lacking(UpstreamNodes, {"id", "title"})
      [] op = "get_initiative" ->
             \/ Lacking(UpstreamEntity, {"id", "name"})
             \/ Lacking(ChildNodes(UpstreamEntity[1], "projects"), {"id", "name"})
             \/ Lacking(ChildNodes(UpstreamEntity[1], "documents"), {"id", "title"})
      [] op = "get_project" ->
             LET p == UpstreamEntity[1]
                 ms == ChildNodes(p, "projectMilestones")
             IN \/ Lacking(UpstreamEntity, {"id", "name"})
                \/ Lacking(ChildNodes(p, "issues"), {"id", "identifier", "title"})
                \/ Lacking(ChildNodes(p, "documents"), {"id", "title"})
                \/ Lacking(ChildNodes(p, "teams"), {"id", "name", "key"})
                \/ Lacking(ChildNodes(p, "initiatives"), {"id", "name"})
                \/ Lacking(ms, {"id", "name"})
                \/ \E j \in 1..Len(ms) :
                       Lacking(ChildNodes(ms[j], "issues"), {"id", "title"})
      [] op = "get_document" -> Lacking(UpstreamEntity, {"id", "title"})

\* every item array of the result has one entry per upstream node, in order
AllNodesKept ==
    CASE op \in ListOps -> OnePerNode(result[ItemsKey(op)], UpstreamNodes)
      [] op = "get_initiative" ->
             /\ result.id = UpstreamEntity[1].id
             /\ OnePerNode(result.projects, ChildNodes(UpstreamEntity[1], "projects"))
             /\ OnePerNode(result.documents, ChildNodes(UpstreamEntity[1], "documents"))
      [] op = "get_project" ->
             LET p == UpstreamEntity[1]
                 ms == ChildNodes(p, "projectMilestones")
             IN /\ result.id = p.id
                /\ OnePerNode(result.issues, ChildNodes(p, "issues"))
                /\ OnePerNode(result.documents, ChildNodes(p, "documents"))
                /\ OnePerNode(result.teams, ChildNodes(p, "teams"))
                /\ OnePerNode(result.initiatives, ChildNodes(p, "initiatives"))
                /\ OnePerNode(result.milestones, ms)
                /\ \A j \in 1..Len(ms) :
                       OnePerNode(result.milestones[j].issues, ChildNodes(ms[j], "issues"))
      [] op = "get_document" -> result.id = UpstreamEntity[1].id

(* C29: results are all-or-nothing: if any upstream node lacks a field    *)
(* the handler requires (id, name or title, identifier or title of a      *)
(* project issue) the operation returns {error: ...} and no partly        *)
(* formatted list; otherwise every output array has exactly one entry     *)
(* per upstream node, in upstream order.                                  *)
C29_AllOrNothing ==
    (op # "none" /\ ~TransportFailed /\ (op \in GetOps => ~NoRef(UpstreamEntity))) =>
        IF NodeLacksField THEN DOMAIN result = {"error"}
        ELSE ~IsError /\ AllNodesKept

\* the second of two document nodes lacks its title: only the error is returned
C29_Witness ==
    /\ op = "list_documents"
    /\ ~TransportFailed
    /\ Len(UpstreamNodes) = 2
    /\ "title" \in DOMAIN UpstreamNodes[1]
    /\ "title" \notin DOMAIN UpstreamNodes[2]
    /\ result = [error |-> <<"'", "title", "'">>]

(* C30: in every successful _get_project result each milestone's          *)
(* issue_count is the length of its issues list; in every successful      *)
(* _get_initiative result project_count is the length of projects; in     *)
(* _list_initiatives project_count is always null.                        *)
C30_Counts ==
    /\ (op = "get_project" /\ ~IsError) =>
           \A j \in 1..Len(result.milestones) :
               result.milestones[j].issue_count = Len(result.milestones[j].issues)
    /\ (op = "get_initiative" /\ ~IsError) =>
           result.project_count = Len(result.projects)
    /\ (op = "list_initiatives" /\ ~IsError) =>
           \A i \in 1..Len(result.initiatives) :
               result.initiatives[i].project_count = None

C30_Witness ==
    /\ op = "get_project"
    /\ ~IsError
    /\ Len(result.milestones) > 0
    /\ Len(result.milestones[1].issues) > 0
    /\ result.milestones[1].issue_count = Len(result.milestones[1].issues)

===========================================================================
